---- MODULE Spec2Model ----
(***************************************************************************)
(* Model of libs/pilka_ash/src/renderpass_and_pipeline.rs: the ownership   *)
(* wrappers VkRenderPass and VkPipeline around Vulkan handles, the         *)
(* constructor VkPipeline::new, the Drop implementations, and the pure     *)
(* builder PipelineDescriptor::new.                                        *)
(*                                                                         *)
(* The logical device is modelled as its table of objects (devObjects): a  *)
(* handle is a slot of the table, a destroyed object frees its slot, and   *)
(* the driver may hand the slot out again.  renderPassObjs and             *)
(* pipelineObjs are the VkRenderPass and VkPipeline values the caller      *)
(* owns; a dropped value is gone.  All calls are synchronous and single    *)
(* threaded: while the Drop of a VkPipeline is running (dropping is set)   *)
(* nothing else runs, and a panic ends the program.                        *)
(***************************************************************************)
EXTENDS Integers, Sequences, FiniteSets, TLC

\* ------------------------------------------------------------------ bounds
MaxHandles == 5
MaxDim == 2
MaxCreated == 2
MaxRenderPasses == 1
MaxStages == 2
MaxAddr == 4

VARIABLES devObjects, invalidDestroy, renderPassObjs, pipelineObjs, dropping,
          pending, created, result, heap, descriptor, descArg

vars == <<devObjects, invalidDestroy, renderPassObjs, pipelineObjs, dropping,
          pending, created, result, heap, descriptor, descArg>>

mainVars == <<devObjects, invalidDestroy, renderPassObjs, pipelineObjs, dropping,
              pending, created, result>>
descVars == <<heap, descriptor, descArg>>

\* ------------------------------------------------------ values and inputs
\* u32 values not above F32Exact convert to f32 without rounding
F32Exact == 2^24

\* target extents: small ones, and one with the largest exactly converted
\* width and a height above the exact range
Extents == {[width |-> w, height |-> MaxDim + 1 - w] : w \in 1..MaxDim}
           \cup {[width |-> F32Exact, height |-> F32Exact + 3]}
NoExtent == [width |-> 0, height |-> 0]
\* shader modules are opaque handles owned by the caller
VertexShaderModules == {"vertex_module"}
FragmentShaderModules == {"fragment_module"}
ShaderModules == VertexShaderModules \cup FragmentShaderModules
\* color-attachment counts of the render passes created
ColorAttachmentCounts == {1, 2}
DriverErrors == {"ERROR_OUT_OF_DEVICE_MEMORY"}
DriverResults == {"SUCCESS"} \cup DriverErrors

\* `n as f32` for a u32 n: round to 24 significant bits, ties to even
RECURSIVE Ulp(_)
Ulp(n) == IF n < F32Exact THEN 1 ELSE 2 * Ulp(n \div 2)

AsF32(n) ==
    LET u == Ulp(n)
        q == n \div u
        r == n % u
    IN  IF 2 * r > u \/ (2 * r = u /\ q % 2 = 1) THEN (q + 1) * u ELSE q * u

\* ------------------------------------------------------------- the driver
\* a device object: its kind, a render pass's color-attachment count, and
\* for a pipeline the render pass it was created against (NullHandle once
\* that render pass has been destroyed)
NullHandle == 0
FreeSlot == [kind |-> "Free", colorAttachments |-> 0, render_pass |-> NullHandle]
DevObject(kind, atts, rp) == [kind |-> kind, colorAttachments |-> atts, render_pass |-> rp]

Handles == 1..MaxHandles
FreeHandles(objs) == {h \in Handles : objs[h].kind = "Free"}
LowestFree(objs) == CHOOSE h \in FreeHandles(objs) : \A g \in FreeHandles(objs) : h <= g

DestroyCall(name, h) == [call |-> name, handle |-> h]

KindDestroyedBy(name) ==
    CASE name = "destroy_render_pass" -> "RenderPass"
      [] name = "destroy_pipeline_layout" -> "PipelineLayout"
      [] name = "destroy_pipeline" -> "Pipeline"

ValidDestroy(objs, c) ==
    c.handle \in Handles /\ objs[c.handle].kind = KindDestroyedBy(c.call)

\* vkDestroy*: the slot is freed; pipelines created against a destroyed
\* render pass lose it
ApplyDestroy(objs, c) ==
    IF ~ValidDestroy(objs, c) THEN objs
    ELSE [h \in Handles |->
            IF h = c.handle THEN FreeSlot
            ELSE IF c.call = "destroy_render_pass" /\ objs[h].kind = "Pipeline"
                    /\ objs[h].render_pass = c.handle
                 THEN [objs[h] EXCEPT !.render_pass = NullHandle]
                 ELSE objs[h]]

\* a run of destroy calls: the resulting table, and whether one of the
\* calls named a handle that is no live object of its kind
RECURSIVE ApplyDestroys(_, _, _)
ApplyDestroys(objs, invalid, calls) ==
    IF calls = <<>> THEN [objs |-> objs, invalid |-> invalid]
    ELSE ApplyDestroys(ApplyDestroy(objs, Head(calls)),
                       invalid \/ ~ValidDestroy(objs, Head(calls)),
                       Tail(calls))

\* vkCreateGraphicsPipelines: one pipeline object per create info
RECURSIVE AllocPipelines(_, _, _)
AllocPipelines(objs, handles, infos) ==
    IF infos = <<>> THEN [objs |-> objs, handles |-> handles]
    ELSE LET h == LowestFree(objs)
         IN  AllocPipelines(
                 [objs EXCEPT ![h] = DevObject("Pipeline", 0, Head(infos).render_pass)],
                 Append(handles, h), Tail(infos))

Idle == dropping = <<>> /\ result.status # "Panic"

NoPipeline == [pipelines |-> <<>>, pipeline_layout |-> NullHandle,
               viewports |-> <<>>, scissors |-> <<>>]

Result(op, status, code, calls, extent, rp, value) ==
    [op |-> op, status |-> status, code |-> code, calls |-> calls,
     extent |-> extent, render_pass |-> rp, value |-> value]

\* ---------------------------------------------------------- VkRenderPass
\* render-pass creation (outside this file): either a new owned handle or
\* a driver error and nothing allocated
CreateRenderPass(atts, res) ==
    /\ Idle
    /\ FreeHandles(devObjects) # {}
    /\ Cardinality(renderPassObjs) < MaxRenderPasses
    /\ IF res = "SUCCESS"
       THEN LET h == LowestFree(devObjects)
            IN  /\ devObjects' = [devObjects EXCEPT ![h] = DevObject("RenderPass", atts, NullHandle)]
                /\ renderPassObjs' = renderPassObjs \cup {[render_pass |-> h]}
                /\ UNCHANGED created
                /\ result' = Result("create_render_pass", "Ok", res, <<>>, NoExtent, h, NoPipeline)
       ELSE /\ UNCHANGED <<devObjects, renderPassObjs, created>>
            /\ result' = Result("create_render_pass", "Err", res, <<>>, NoExtent,
                                NullHandle, NoPipeline)
    /\ UNCHANGED <<invalidDestroy, pipelineObjs, dropping, pending, descVars>>

VkRenderPassDropCallsTwice(rp) ==
    <<DestroyCall("destroy_render_pass", rp.render_pass),
      DestroyCall("destroy_render_pass", rp.render_pass)>>

\* the driver calls of Drop for VkRenderPass
VkRenderPassDropCalls(rp) ==
    <<DestroyCall("destroy_render_pass", rp.render_pass)>>

VkRenderPassDrop(rp) ==
    /\ Idle
    /\ rp \in renderPassObjs
    /\ LET after == ApplyDestroys(devObjects, invalidDestroy, VkRenderPassDropCalls(rp))
       IN  /\ devObjects' = after.objs
           /\ invalidDestroy' = after.invalid
    /\ renderPassObjs' = renderPassObjs \ {rp}
    /\ result' = Result("drop_render_pass", "Ok", "SUCCESS", <<>>, NoExtent,
                        rp.render_pass, NoPipeline)
    /\ UNCHANGED <<pipelineObjs, dropping, pending, created, descVars>>

\* ------------------------------------------------------------ VkPipeline
LayoutCreateInfo == [set_layout_count |-> 0, push_constant_range_count |-> 0]

ShaderStageCreateInfos(vs, fs) ==
    << [module |-> vs, p_name |-> "main", stage |-> "VERTEX"],
       [module |-> fs, p_name |-> "main", stage |-> "FRAGMENT"] >>

ViewportsNoFlip(extent) ==
    << [x |-> 0, y |-> 0, width |-> AsF32(extent.width),
        height |-> AsF32(extent.height), min_depth |-> 0, max_depth |-> 1] >>

Viewports(extent) ==
    << [x |-> 0, y |-> AsF32(extent.height), width |-> AsF32(extent.width),
        height |-> -AsF32(extent.height), min_depth |-> 0, max_depth |-> 1] >>

Scissors(extent) ==
    << [offset |-> [x |-> 0, y |-> 0], extent |-> extent] >>

ColorBlendAttachmentState ==
    [blend_enable |-> 0,
     src_color_blend_factor |-> "SRC_COLOR",
     dst_color_blend_factor |-> "ONE_MINUS_DST_COLOR",
     color_blend_op |-> "ADD",
     src_alpha_blend_factor |-> "ZERO",
     dst_alpha_blend_factor |-> "ZERO",
     alpha_blend_op |-> "ADD",
     color_write_mask |-> {"R", "G", "B", "A"}]

color_blend_attachment_states == <<ColorBlendAttachmentState>>

GraphicPipelineInfo(vs, fs, extent, render_pass, pipeline_layout) ==
    [stages |-> ShaderStageCreateInfos(vs, fs),
     vertex_input_state |-> [vertex_attribute_description_count |-> 0,
                             vertex_binding_description_count |-> 0],
     input_assembly_state |-> [topology |-> "TRIANGLE_LIST"],
     viewport_state |-> [viewports |-> Viewports(extent), scissors |-> Scissors(extent)],
     rasterization_state |-> [front_face |-> "COUNTER_CLOCKWISE", line_width |-> 1,
                              polygon_mode |-> "FILL", cull_mode |-> "BACK"],
     multisample_state |-> [rasterization_samples |-> "TYPE_1"],
     color_blend_state |-> [logic_op |-> "CLEAR",
                            attachments |-> color_blend_attachment_states],
     dynamic_state |-> <<"VIEWPORT", "SCISSOR">>,
     layout |-> pipeline_layout,
     render_pass |-> render_pass]

CreateInfosTwo(vs, fs, extent, render_pass, pipeline_layout) ==
    << GraphicPipelineInfo(vs, fs, extent, render_pass, pipeline_layout),
       GraphicPipelineInfo(vs, fs, extent, render_pass, pipeline_layout) >>

\* the slice handed to create_graphics_pipelines
CreateInfos(vs, fs, extent, render_pass, pipeline_layout) ==
    << GraphicPipelineInfo(vs, fs, extent, render_pass, pipeline_layout) >>

CreateCall(name, infos) == [call |-> name, infos |-> infos]

VkPipelineNew(vs, fs, extent, rp, layoutRes, pipeRes) ==
    /\ Idle
    /\ rp \in renderPassObjs
    /\ created < MaxCreated
    /\ FreeHandles(devObjects) # {}
    /\ LET layout_call == CreateCall("create_pipeline_layout", <<LayoutCreateInfo>>)
           pipeline_layout == LowestFree(devObjects)
           withLayout == [devObjects EXCEPT
                             ![pipeline_layout] = DevObject("PipelineLayout", 0, NullHandle)]
           infos == CreateInfos(vs, fs, extent, rp.render_pass, pipeline_layout)
           pipe_call == CreateCall("create_graphics_pipelines", infos)
       IN  /\ Cardinality(FreeHandles(devObjects)) >= 1 + Len(infos)
           /\ IF layoutRes # "SUCCESS"
              THEN \* `?` on create_pipeline_layout
                   /\ result' = Result("VkPipeline::new", "Err", layoutRes,
                                       <<layout_call>>, extent, rp.render_pass, NoPipeline)
                   /\ UNCHANGED <<devObjects, pipelineObjs, created>>
              ELSE IF pipeRes # "SUCCESS"
              THEN \* .expect("Unable to create graphics pipeline")
                   /\ devObjects' = withLayout
                   /\ result' = Result("VkPipeline::new", "Panic", pipeRes,
                                       <<layout_call, pipe_call>>, extent, rp.render_pass,
                                       NoPipeline)
                   /\ UNCHANGED <<pipelineObjs, created>>
              ELSE LET made == AllocPipelines(withLayout, <<>>, infos)
                       value == [pipelines |-> made.handles,
                                 pipeline_layout |-> pipeline_layout,
                                 viewports |-> Viewports(extent),
                                 scissors |-> Scissors(extent)]
                   IN  /\ devObjects' = made.objs
                       /\ pipelineObjs' = pipelineObjs \cup {value}
                       /\ created' = created + 1
                       /\ result' = Result("VkPipeline::new", "Ok", pipeRes,
                                           <<layout_call, pipe_call>>, extent,
                                           rp.render_pass, value)
    /\ UNCHANGED <<invalidDestroy, renderPassObjs, dropping, pending, descVars>>

VkPipelineGet(p) == p.pipelines[1]

VkPipelineGetCall(p) ==
    /\ Idle
    /\ p \in pipelineObjs
    /\ result' = Result("VkPipeline::get", "Ok", VkPipelineGet(p), <<>>, NoExtent,
                        NullHandle, p)
    /\ UNCHANGED <<devObjects, invalidDestroy, renderPassObjs, pipelineObjs, dropping,
                   pending, created, descVars>>

RECURSIVE DestroyPipelineCalls(_)
DestroyPipelineCalls(pipelines) ==
    IF pipelines = <<>> THEN <<>>
    ELSE <<DestroyCall("destroy_pipeline", Head(pipelines))>>
         \o DestroyPipelineCalls(Tail(pipelines))

VkPipelineDropCallsLayoutFirst(p) ==
    <<DestroyCall("destroy_pipeline_layout", p.pipeline_layout)>>
    \o DestroyPipelineCalls(p.pipelines)

VkPipelineDropCallsNoLayout(p) ==
    DestroyPipelineCalls(p.pipelines)

VkPipelineDropCallsAndRenderPass(p) ==
    DestroyPipelineCalls(p.pipelines)
    \o <<DestroyCall("destroy_pipeline_layout", p.pipeline_layout),
         DestroyCall("destroy_render_pass", devObjects[p.pipelines[1]].render_pass)>>

\* the driver calls of Drop for VkPipeline, in program order
VkPipelineDropCalls(p) ==
    DestroyPipelineCalls(p.pipelines)
    \o <<DestroyCall("destroy_pipeline_layout", p.pipeline_layout)>>

\* drop(&mut self) is entered: the value is no longer the caller's
VkPipelineDropBegin(p) ==
    /\ Idle
    /\ p \in pipelineObjs
    /\ pending' = VkPipelineDropCalls(p)
    /\ dropping' = <<p>>
    /\ pipelineObjs' = pipelineObjs \ {p}
    /\ result' = Result("drop_pipeline", "Running", "SUCCESS", <<>>, NoExtent,
                        NullHandle, NoPipeline)
    /\ UNCHANGED <<devObjects, invalidDestroy, renderPassObjs, created, descVars>>

\* the next destroy call of the running drop; the drop returns after the last
VkPipelineDropStep ==
    /\ dropping # <<>>
    /\ pending # <<>>
    /\ LET after == ApplyDestroys(devObjects, invalidDestroy, <<Head(pending)>>)
       IN  /\ devObjects' = after.objs
           /\ invalidDestroy' = after.invalid
    /\ pending' = Tail(pending)
    /\ IF Tail(pending) = <<>>
       THEN /\ dropping' = <<>>
            /\ result' = [result EXCEPT !.status = "Ok"]
       ELSE UNCHANGED <<dropping, result>>
    /\ UNCHANGED <<renderPassObjs, pipelineObjs, created, descVars>>

\* ---------------------------------------------------- PipelineDescriptor
\* a Box<[T]> is the address of its heap block; moving the Box keeps it
StageInfos == [module : ShaderModules, stage : {"VERTEX", "FRAGMENT"}]

RECURSIVE StageLists(_)
StageLists(n) ==
    IF n = 0 THEN {<<>>}
    ELSE StageLists(n - 1)
         \cup {Append(l, s) : l \in {x \in StageLists(n - 1) : Len(x) = n - 1},
                              s \in StageInfos}

FreeAddrs == {a \in 1..MaxAddr : heap[a] = <<>>}

\* builder .attachments(slice) / .dynamic_states(slice): count and pointer
SliceRef(addr, array) == [count |-> Len(array), ptr |-> addr]

DynamicStateViewportOnly == <<"VIEWPORT">>

\* Box::new([VIEWPORT, SCISSOR])
DefaultDynamicState == <<"VIEWPORT", "SCISSOR">>

\* Box::new([PipelineColorBlendAttachmentState { .. }])
DefaultColorBlendAttachments == <<ColorBlendAttachmentState>>

\* PipelineDescriptor::new: the two boxed arrays (address and contents) and
\* the state blocks built over them
PipelineDescriptorNew(shader_stages, blendAddr, dynAddr) ==
    LET color_blend_attachments == DefaultColorBlendAttachments
        dynamic_state == DefaultDynamicState
        noop_stencil_state == [fail_op |-> "KEEP", pass_op |-> "KEEP",
                               depth_fail_op |-> "KEEP", compare_op |-> "ALWAYS"]
    IN  [present |-> TRUE,
         shader_stages |-> shader_stages,
         vertex_input |-> [vertex_attribute_description_count |-> 0,
                           vertex_binding_description_count |-> 0],
         input_assembly |-> [topology |-> "TRIANGLE_LIST"],
         rasterization |-> [front_face |-> "COUNTER_CLOCKWISE", line_width |-> 1,
                            polygon_mode |-> "FILL", cull_mode |-> "NONE"],
         multisample |-> [rasterization_samples |-> "TYPE_1"],
         depth_stencil |-> [depth_test_enable |-> 0, depth_write_enable |-> 0,
                            depth_compare_op |-> "ALWAYS",
                            front |-> noop_stencil_state, back |-> noop_stencil_state,
                            max_depth_bounds |-> 1],
         color_blend_attachments |-> [addr |-> blendAddr, data |-> color_blend_attachments],
         color_blend |-> [logic_op |-> "CLEAR",
                          attachments |-> SliceRef(blendAddr, color_blend_attachments)],
         dynamic_state |-> [addr |-> dynAddr, data |-> dynamic_state],
         dynamic_state_info |-> [dynamic_states |-> SliceRef(dynAddr, dynamic_state)]]

NoDescriptor == [present |-> FALSE]

\* let d = PipelineDescriptor::new(shader_stages): the allocator picks the blocks
PipelineDescriptorNewCall(shader_stages, blendAddr, dynAddr) ==
    /\ ~descriptor.present
    /\ blendAddr \in FreeAddrs /\ dynAddr \in FreeAddrs /\ blendAddr # dynAddr
    /\ LET d == PipelineDescriptorNew(shader_stages, blendAddr, dynAddr)
       IN  /\ heap' = [heap EXCEPT ![d.color_blend_attachments.addr] = d.color_blend_attachments.data,
                                   ![d.dynamic_state.addr] = d.dynamic_state.data]
           /\ descriptor' = [d EXCEPT !.color_blend_attachments = @.addr,
                                      !.dynamic_state = @.addr]
    /\ descArg' = shader_stages
    /\ UNCHANGED mainVars

\* the descriptor goes out of scope: its boxes are freed
PipelineDescriptorDrop ==
    /\ descriptor.present
    /\ heap' = [heap EXCEPT ![descriptor.color_blend_attachments] = <<>>,
                            ![descriptor.dynamic_state] = <<>>]
    /\ descriptor' = NoDescriptor
    /\ UNCHANGED <<descArg, mainVars>>

\* ------------------------------------------------------------------ specs
Init ==
    /\ devObjects = [h \in Handles |-> FreeSlot]
    /\ invalidDestroy = FALSE
    /\ renderPassObjs = {}
    /\ pipelineObjs = {}
    /\ dropping = <<>>
    /\ pending = <<>>
    /\ created = 0
    /\ result = Result("none", "Ok", "SUCCESS", <<>>, NoExtent, NullHandle, NoPipeline)
    /\ heap = [a \in 1..MaxAddr |-> <<>>]
    /\ descriptor = NoDescriptor
    /\ descArg = <<>>

Next ==
    \/ \E atts \in ColorAttachmentCounts, res \in DriverResults : CreateRenderPass(atts, res)
    \/ \E rp \in renderPassObjs : VkRenderPassDrop(rp)
    \/ \E vs \in VertexShaderModules, fs \in FragmentShaderModules, extent \in Extents,
          rp \in renderPassObjs, layoutRes \in DriverResults, pipeRes \in DriverResults :
          VkPipelineNew(vs, fs, extent, rp, layoutRes, pipeRes)
    \/ \E p \in pipelineObjs : VkPipelineGetCall(p)
    \/ \E p \in pipelineObjs : VkPipelineDropBegin(p)
    \/ VkPipelineDropStep

Spec == Init /\ [][Next]_vars

NextDescriptor ==
    \/ \E shader_stages \in StageLists(MaxStages), blendAddr \in 1..MaxAddr,
          dynAddr \in 1..MaxAddr :
          PipelineDescriptorNewCall(shader_stages, blendAddr, dynAddr)
    \/ PipelineDescriptorDrop

SpecDescriptor == Init /\ [][NextDescriptor]_vars

\* ----------------------------------------------------------------- claims
NewReturned == result.op = "VkPipeline::new"
NewSucceeded == NewReturned /\ result.status = "Ok"
PipelineHandles(p) == {p.pipelines[k] : k \in 1..Len(p.pipelines)}
LiveOfKind(kind) == {h \in Handles : devObjects[h].kind = kind}
Destroying == IF dropping = <<>> THEN {} ELSE {dropping[1]}

\* C1: when create_pipeline_layout succeeded and create_graphics_pipelines
\* failed inside VkPipeline::new, the layout created by the call is no longer
\* allocated on the device when the operation ends and no VkPipeline was built.
C1_LayoutDestroyedOnPipelineFailure ==
    (NewReturned /\ Len(result.calls) = 2 /\ result.code \in DriverErrors)
        => /\ devObjects[result.calls[2].infos[1].layout].kind = "Free"
           /\ result.value = NoPipeline

\* C2: every rejected create call of VkPipeline::new ends the operation with
\* an error result (never a panic, never a VkPipeline).
C2_RejectionIsErrorResult ==
    (NewReturned /\ result.code \in DriverErrors)
        => result.status = "Err" /\ result.value = NoPipeline

\* C3: a released VkPipeline moves Active -> Destroying -> Destroyed and never
\* back; each of its pipeline handles and its layout is destroyed exactly once
\* (no destroy call ever names a handle that is not live), and the layout only
\* after all of its pipeline handles.
C3_DestroyOrder ==
    /\ ~invalidDestroy
    /\ \A p \in pipelineObjs :
           /\ devObjects[p.pipeline_layout].kind = "PipelineLayout"
           /\ \A h \in PipelineHandles(p) : devObjects[h].kind = "Pipeline"
    /\ \A p \in Destroying :
           devObjects[p.pipeline_layout].kind = "Free"
               => \A h \in PipelineHandles(p) : devObjects[h].kind = "Free"

C3_StateStep ==
    /\ \A p \in pipelineObjs : p \notin pipelineObjs' => dropping' = <<p>>
    /\ \A p \in Destroying :
           /\ p \notin pipelineObjs'
           /\ \/ dropping' = dropping
              \/ /\ dropping' = <<>>
                 /\ devObjects'[p.pipeline_layout].kind = "Free"
                 /\ \A h \in PipelineHandles(p) : devObjects'[h].kind = "Free"

\* C3: in every state the destroy order holds, and every step keeps the
\* Active -> Destroying -> Destroyed direction.
C3_PipelinesThenLayoutOnce == []C3_DestroyOrder /\ [][C3_StateStep]_vars

C3_Witness ==
    \E p \in Destroying :
        /\ devObjects[p.pipelines[1]].kind = "Free"
        /\ devObjects[p.pipeline_layout].kind = "PipelineLayout"

\* C4 (as stated): no live VkPipeline ever references a destroyed render pass,
\* and no render pass is destroyed twice.
C4_NoLivePipelineOnDestroyedRenderPass ==
    /\ \A p \in pipelineObjs \cup Destroying :
           \A h \in PipelineHandles(p) :
               devObjects[h].kind = "Pipeline"
                   => /\ devObjects[h].render_pass # NullHandle
                      /\ devObjects[devObjects[h].render_pass].kind = "RenderPass"
    /\ ~invalidDestroy

\* C4 (amended): a render pass is destroyed exactly once, by the release of
\* its VkRenderPass; a VkPipeline is only ever created against a render pass
\* that is alive, so a live VkPipeline references a destroyed render pass only
\* through a release of the render pass that the caller made while that
\* pipeline was alive.
Dangling(objs) == {h \in Handles : objs[h].kind = "Pipeline" /\ objs[h].render_pass = NullHandle}

C4_RenderPassOwned ==
    /\ ~invalidDestroy
    /\ LiveOfKind("RenderPass") = {o.render_pass : o \in renderPassObjs}
    /\ NewSucceeded
           => \A h \in PipelineHandles(result.value) :
                  /\ devObjects[h].render_pass = result.render_pass
                  /\ devObjects[result.render_pass].kind = "RenderPass"

C4_DanglingOnlyByEarlyRelease ==
    \A h \in Dangling(devObjects') :
        \/ h \in Dangling(devObjects)
        \/ /\ devObjects[h].kind = "Pipeline"
           /\ \E o \in renderPassObjs :
                  /\ o.render_pass = devObjects[h].render_pass
                  /\ renderPassObjs' = renderPassObjs \ {o}
                  /\ result'.op = "drop_render_pass"

\* C4 (amended): render passes are owned and destroyed once, and a dangling
\* pipeline arises only by the caller's early release of its render pass.
C4_Amended == []C4_RenderPassOwned /\ [][C4_DanglingOnlyByEarlyRelease]_vars

C4_Witness ==
    /\ result.op = "drop_render_pass"
    /\ created >= 2
    /\ pipelineObjs = {}
    /\ LiveOfKind("RenderPass") = {}
    /\ Dangling(devObjects) = {}

\* C5: VkPipeline::new against a render pass whose color-attachment count is
\* not the number of color-blend-attachment states fails with
\* ConfigurationMismatch before any driver call.
C5_MismatchRejectedBeforeDriver ==
    (NewReturned
     /\ devObjects[result.render_pass].colorAttachments # Len(color_blend_attachment_states))
        => result.status = "ConfigurationMismatch" /\ result.calls = <<>>

\* C6: whenever no operation is running, the live render passes, pipeline
\* layouts and pipelines of the device are exactly those owned by the
\* VkRenderPass and VkPipeline values not yet released, and no handle was
\* destroyed twice: creating and releasing pairs returns every count to its
\* value before.
C6_RoundTripNoLeak ==
    Idle => /\ LiveOfKind("RenderPass") = {o.render_pass : o \in renderPassObjs}
            /\ LiveOfKind("PipelineLayout") = {p.pipeline_layout : p \in pipelineObjs}
            /\ LiveOfKind("Pipeline") = UNION {PipelineHandles(p) : p \in pipelineObjs}
            /\ Cardinality(LiveOfKind("RenderPass")) = Cardinality(renderPassObjs)
            /\ Cardinality(LiveOfKind("PipelineLayout")) = Cardinality(pipelineObjs)
            /\ Cardinality(LiveOfKind("Pipeline")) = Cardinality(pipelineObjs)
            /\ ~invalidDestroy

C6_Witness ==
    /\ Idle
    /\ created >= 2
    /\ result.op = "drop_render_pass"
    /\ renderPassObjs = {} /\ pipelineObjs = {}
    /\ devObjects = [h \in Handles |-> FreeSlot]

\* C7: a successful VkPipeline::new submits one create_graphics_pipelines
\* request of batch size one and returns exactly one pipeline handle and the
\* live layout created in the same call; get() returns that pipeline handle.
C7_NewResult ==
    /\ NewSucceeded
           => LET p == result.value
              IN  /\ p \in pipelineObjs
                  /\ Len(result.calls) = 2
                  /\ result.calls[1].call = "create_pipeline_layout"
                  /\ result.calls[2].call = "create_graphics_pipelines"
                  /\ Len(result.calls[2].infos) = 1
                  /\ result.calls[2].infos[1].layout = p.pipeline_layout
                  /\ Len(p.pipelines) = 1
                  /\ devObjects[p.pipelines[1]].kind = "Pipeline"
                  /\ devObjects[p.pipeline_layout].kind = "PipelineLayout"
    /\ result.op = "VkPipeline::get"
           => /\ result.value.pipelines = <<result.code>>
              /\ devObjects[result.code].kind = "Pipeline"

C7_NewStep ==
    \A p \in pipelineObjs' \ pipelineObjs :
        /\ devObjects[p.pipeline_layout].kind = "Free"
        /\ devObjects[p.pipelines[1]].kind = "Free"
        /\ Cardinality(FreeHandles(devObjects')) = Cardinality(FreeHandles(devObjects)) - 2
        /\ pipelineObjs' = pipelineObjs \cup {p}

\* C7: every successful new returns one pipeline and one layout, both
\* created by that call, and get() returns the pipeline.
C7_OnePipelineOneLayout == []C7_NewResult /\ [][C7_NewStep]_vars

C7_Witness ==
    /\ result.op = "VkPipeline::get"
    /\ Cardinality(pipelineObjs) = 2
    /\ result.value \in pipelineObjs

\* C8: releasing a VkPipeline leaves every render pass untouched; the render
\* pass it was built against stays live and unchanged, and is destroyed
\* exactly once when released afterwards.
C8_DropStepFrame ==
    (dropping # <<>> \/ dropping' # <<>>)
        => /\ renderPassObjs' = renderPassObjs
           /\ invalidDestroy' = invalidDestroy
           /\ \A h \in Handles :
                  (devObjects[h].kind = "RenderPass" \/ devObjects'[h].kind = "RenderPass")
                      => devObjects'[h] = devObjects[h]

C8_RenderPassStillOwned ==
    /\ \A o \in renderPassObjs : devObjects[o.render_pass].kind = "RenderPass"
    /\ result.op = "drop_render_pass"
           => devObjects[result.render_pass].kind = "Free" /\ ~invalidDestroy

\* C8: no step of a VkPipeline drop changes a render pass, and every owned
\* render pass stays live until its own release.
C8_RenderPassUntouched == []C8_RenderPassStillOwned /\ [][C8_DropStepFrame]_vars

C8_Witness ==
    /\ result.op = "drop_pipeline" /\ result.status = "Ok"
    /\ pipelineObjs = {}
    /\ renderPassObjs # {}
    /\ \A o \in renderPassObjs : devObjects[o.render_pass].kind = "RenderPass"

\* C9 (as stated): for every extent (w, h) with w, h > 0 the stored viewport
\* is x = 0, y = h, width = w, height = -h, depth 0..1, and the stored scissor
\* is offset (0, 0), extent (w, h).
ScissorExact(p, e) ==
    /\ Len(p.scissors) = 1
    /\ p.scissors[1].offset = [x |-> 0, y |-> 0]
    /\ p.scissors[1].extent = e

C9_ViewportExact ==
    (NewSucceeded /\ result.extent.width > 0 /\ result.extent.height > 0)
        => /\ Len(result.value.viewports) = 1
           /\ result.value.viewports[1]
                = [x |-> 0, y |-> result.extent.height, width |-> result.extent.width,
                   height |-> -result.extent.height, min_depth |-> 0, max_depth |-> 1]
           /\ ScissorExact(result.value, result.extent)

\* C9 (amended): the same for every extent with 0 < w, h <= 2^24, the range a
\* u32 converts to f32 exactly; above it the scissor is still exact and the
\* viewport holds the f32 nearest to w and to h (height = -y).
C9_ViewportExactInF32Range ==
    (NewSucceeded /\ result.extent.width > 0 /\ result.extent.height > 0)
        => LET v == result.value.viewports[1]
               e == result.extent
           IN  /\ Len(result.value.viewports) = 1
               /\ v.x = 0 /\ v.min_depth = 0 /\ v.max_depth = 1
               /\ v.height = -v.y
               /\ e.width <= F32Exact => v.width = e.width
               /\ e.height <= F32Exact => v.y = e.height /\ v.height = -e.height
               /\ 2 * (v.width - e.width) \in -Ulp(e.width)..Ulp(e.width)
               /\ 2 * (v.y - e.height) \in -Ulp(e.height)..Ulp(e.height)
               /\ ScissorExact(result.value, e)

C9_Witness ==
    /\ NewSucceeded
    /\ result.extent.width = 1 /\ result.extent.height = 2
    /\ result.value.viewports[1].y = 2
    /\ result.value.viewports[1].height = -2

\* C10: a descriptor built by PipelineDescriptor::new has one color-blend
\* attachment (blending off, all channels written), the dynamic states
\* {viewport, scissor}, info blocks that point at those two arrays with
\* counts one and two, and the shader stages it was given.
C10_DefaultDescriptor ==
    descriptor.present
        => LET blend == heap[descriptor.color_blend_attachments]
               dyn == heap[descriptor.dynamic_state]
           IN  /\ Len(blend) = 1
               /\ blend[1].blend_enable = 0
               /\ blend[1].color_write_mask = {"R", "G", "B", "A"}
               /\ Len(dyn) = 2
               /\ {dyn[k] : k \in 1..Len(dyn)} = {"VIEWPORT", "SCISSOR"}
               /\ descriptor.color_blend.attachments
                      = [count |-> 1, ptr |-> descriptor.color_blend_attachments]
               /\ descriptor.dynamic_state_info.dynamic_states
                      = [count |-> 2, ptr |-> descriptor.dynamic_state]
               /\ descriptor.color_blend_attachments # descriptor.dynamic_state
               /\ descriptor.shader_stages = descArg

C10_Witness ==
    /\ descriptor.present
    /\ Len(descArg) = 2
    /\ descArg[1].stage = "VERTEX" /\ descArg[2].stage = "FRAGMENT"
====
